---- MODULE Spec2Model ----
(***************************************************************************)
(* NeuralFlex/Orchestrator-Base: the video editing agent                   *)
(* (src/src/agents/video_agent.py), its twenty tool stubs                  *)
(* (src/src/tools/tools.py) and the interactive loop (src/main.py).        *)
(*                                                                         *)
(* Python values: None is the string "None_" (NoneValue); a str is a TLA+  *)
(* string; a list is a sequence; a dict is a record.  A message is a       *)
(* record [type, id, content, tool_calls, tool_call_id].                   *)
(***************************************************************************)
EXTENDS Integers, Sequences, FiniteSets, TLC

VARIABLES
    environ,        \* os.environ: the variables __init__ reads and writes
    agent,          \* the VideoEditingAgent object (NoAgent before construction)
    ctor,           \* the last constructor call: arguments, os.environ before it, exception
    memory,         \* MemorySaver: thread id -> checkpointed AgentState values
    pc,             \* position of the running process_request: idle/agent/tools/end/failed
    req,            \* arguments of the running (or last) process_request
    step,           \* super-steps executed by the running graph.invoke
    uuid,           \* source of fresh message ids (uuid4 / provider ids)
    llm_input,      \* messages_for_llm of the last LLM call
    trace,          \* nodes executed by the current graph run, in order
    produced,       \* messages the nodes of the current run returned, in order
    calls,          \* completed process_request calls: arguments and returned dict
    error,          \* text of the exception that ended the current graph run ("" for none)
    lastOp,         \* the clear_history call that has just returned, if one has (else NoOp)
    thread_id,      \* main(): the interactive loop's current thread id
    main_pc,        \* main(): "loop" while the loop runs, "quit" after quit/exit
    processed,      \* main(): thread ids on which the session processed a request
    cleared,        \* main(): a 'clear' command was given since the last request
    toolCall,       \* tools.py: a call of a tool function: its name and arguments
    toolResult,     \* tools.py: the dict that call returns (NoResult before it has)
    otherCall,      \* tools.py: a second call of the same tool function
    otherResult     \* tools.py: the dict the second call returns

vars == <<environ, agent, ctor, memory, pc, req, step, uuid, llm_input, trace,
          produced, calls, lastOp, thread_id, main_pc, processed, cleared,
          error, toolCall, toolResult, otherCall, otherResult>>

agentVars == <<environ, agent, ctor>>
runVars == <<memory, pc, req, step, uuid, llm_input, trace, produced, calls, error, lastOp>>
mainVars == <<thread_id, main_pc, processed, cleared>>
toolVars == <<toolCall, toolResult, otherCall, otherResult>>

-----------------------------------------------------------------------------
(* Bounds of the model *)

\* process_request calls per behaviour
MaxRequests == 2
\* super-steps one graph.invoke may execute before the framework aborts the run
RecursionLimit == 3

-----------------------------------------------------------------------------
(* Python values *)

NoneValue == "None_"

\* bool(x) for x a str or None
Truthy(x) == x # NoneValue /\ x # ""

\* Mutant: falls back to b only when a is None, so an empty a is kept
Or_NoneOnly(a, b) == IF a # NoneValue THEN a ELSE b

\* a or b
Or(a, b) == IF Truthy(a) THEN a ELSE b

Last(s) == s[Len(s)]

RECURSIVE Reversed(_)
Reversed(s) == IF s = <<>> THEN <<>> ELSE Append(Reversed(Tail(s)), Head(s))

RECURSIVE SeqToSet(_)
SeqToSet(s) == IF s = <<>> THEN {} ELSE {Head(s)} \cup SeqToSet(Tail(s))

NoDuplicates(s) == \A i, j \in 1..Len(s) : s[i] = s[j] => i = j

-----------------------------------------------------------------------------
(* src/src/tools/tools.py: the twenty tool functions.                      *)
(* args is the record of a call's arguments: uri (the first parameter:     *)
(* video_s3_uri, clip1_s3_uri or audio_s3_uri), output_format (a str) and  *)
(* output_s3_uri (a str given as its sequence of characters, so that       *)
(* rstrip can look at them).  Every other parameter is read by no tool.    *)

\* str.rstrip(chars) on a sequence of characters
RECURSIVE rstrip(_, _)
rstrip(s, ch) ==
    IF s # <<>> /\ Last(s) = ch THEN rstrip(SubSeq(s, 1, Len(s) - 1), ch) ELSE s

\* the str made of a sequence of characters
RECURSIVE Join(_)
Join(s) == IF s = <<>> THEN "" ELSE Head(s) \o Join(Tail(s))

\* Mutant: the result names the input video
trim_video_Echo(args) ==
    [message |-> "Video trimmed successfully",
     media |-> args.uri]

trim_video(args) ==
    [message |-> "Video trimmed successfully",
     media |-> "s3://mock-bucket/output/trimmed_video.mp4"]

split_video(args) ==
    [message |-> "Video split successfully",
     media |-> <<"s3://mock-bucket/output/split_part1.mp4",
                   "s3://mock-bucket/output/split_part2.mp4">>]

merge_clips(args) ==
    [message |-> "Clips merged successfully",
     media |-> "s3://mock-bucket/output/merged_video.mp4"]

crop_frame(args) ==
    [message |-> "Video cropped successfully",
     media |-> "s3://mock-bucket/output/cropped_video.mp4"]

resize_video(args) ==
    [message |-> "Video resized successfully",
     media |-> "s3://mock-bucket/output/resized_video.mp4"]

change_resolution(args) ==
    [message |-> "Video resolution changed successfully",
     media |-> "s3://mock-bucket/output/resolution_changed_video.mp4"]

adjust_frame_rate(args) ==
    [message |-> "Frame rate adjusted successfully",
     media |-> "s3://mock-bucket/output/frame_rate_adjusted_video.mp4"]

color_correct(args) ==
    [message |-> "Color correction applied successfully",
     media |-> "s3://mock-bucket/output/color_corrected_video.mp4"]

add_transition(args) ==
    [message |-> "Transition added successfully",
     media |-> "s3://mock-bucket/output/transition_video.mp4"]

add_overlay(args) ==
    [message |-> "Overlay added successfully",
     media |-> "s3://mock-bucket/output/overlay_video.mp4"]

add_subtitles(args) ==
    [message |-> "Subtitles added successfully",
     media |-> "s3://mock-bucket/output/subtitled_video.mp4"]

add_captions(args) ==
    [message |-> "Captions added successfully",
     media |-> "s3://mock-bucket/output/captioned_video.mp4"]

add_soundtrack(args) ==
    [message |-> "Soundtrack added successfully",
     media |-> "s3://mock-bucket/output/soundtrack_video.mp4"]

adjust_volume(args) ==
    [message |-> "Volume adjusted successfully",
     media |-> "s3://mock-bucket/output/volume_adjusted_video.mp4"]

remove_background_noise(args) ==
    [message |-> "Background noise removed successfully",
     media |-> "s3://mock-bucket/output/cleaned_audio.mp3"]

generate_thumbnail(args) ==
    [message |-> "Thumbnail generated successfully",
     media |-> "s3://mock-bucket/output/thumbnail.png"]

add_intro(args) ==
    [message |-> "Intro added successfully",
     media |-> "s3://mock-bucket/output/intro_added_video.mp4"]

add_outro(args) ==
    [message |-> "Outro added successfully",
     media |-> "s3://mock-bucket/output/outro_added_video.mp4"]

export_video(args) ==
    [message |-> "Video exported successfully",
     media |-> Join(rstrip(args.output_s3_uri, "/")) \o "/exported_video." \o args.output_format]

change_format(args) ==
    [message |-> "Video format changed successfully",
     media |-> "s3://mock-bucket/output/converted_video." \o args.output_format]

\* tool(func): the wrapper is named after the function and calls it
InvokeTool(name, args) ==
    CASE name = "trim_video" -> trim_video(args)
      [] name = "split_video" -> split_video(args)
      [] name = "merge_clips" -> merge_clips(args)
      [] name = "crop_frame" -> crop_frame(args)
      [] name = "resize_video" -> resize_video(args)
      [] name = "change_resolution" -> change_resolution(args)
      [] name = "adjust_frame_rate" -> adjust_frame_rate(args)
      [] name = "color_correct" -> color_correct(args)
      [] name = "add_transition" -> add_transition(args)
      [] name = "add_overlay" -> add_overlay(args)
      [] name = "add_subtitles" -> add_subtitles(args)
      [] name = "add_captions" -> add_captions(args)
      [] name = "add_soundtrack" -> add_soundtrack(args)
      [] name = "adjust_volume" -> adjust_volume(args)
      [] name = "remove_background_noise" -> remove_background_noise(args)
      [] name = "generate_thumbnail" -> generate_thumbnail(args)
      [] name = "add_intro" -> add_intro(args)
      [] name = "add_outro" -> add_outro(args)
      [] name = "export_video" -> export_video(args)
      [] name = "change_format" -> change_format(args)

\* Mutant: change_format is not registered
register_tools_Short ==
    <<"trim_video", "split_video", "merge_clips", "crop_frame", "resize_video",
      "change_resolution", "adjust_frame_rate", "color_correct", "add_transition",
      "add_overlay", "add_subtitles", "add_captions", "add_soundtrack",
      "adjust_volume", "remove_background_noise", "generate_thumbnail",
      "add_intro", "add_outro", "export_video">>

\* VideoEditingAgent._register_tools: the names of the registered tools, in order
register_tools ==
    <<"trim_video", "split_video", "merge_clips", "crop_frame", "resize_video",
      "change_resolution", "adjust_frame_rate", "color_correct", "add_transition",
      "add_overlay", "add_subtitles", "add_captions", "add_soundtrack",
      "adjust_volume", "remove_background_noise", "generate_thumbnail",
      "add_intro", "add_outro", "export_video", "change_format">>

\* tests/test_agent.py: expected_tools
expected_tools ==
    <<"trim_video", "split_video", "merge_clips", "crop_frame",
      "resize_video", "change_resolution", "adjust_frame_rate",
      "color_correct", "add_transition", "add_overlay", "add_subtitles",
      "add_captions", "add_soundtrack", "adjust_volume",
      "remove_background_noise", "generate_thumbnail", "add_intro",
      "add_outro", "export_video", "change_format">>

\* Mutant: the prompt does not list add_captions
AvailableTools_Short ==
    <<"trim_video", "split_video", "merge_clips", "crop_frame", "resize_video",
      "change_resolution", "adjust_frame_rate", "color_correct", "add_transition",
      "add_overlay", "add_subtitles", "add_soundtrack",
      "adjust_volume", "remove_background_noise", "generate_thumbnail",
      "add_intro", "add_outro", "export_video", "change_format">>

\* The "- name: description" lines under "Available tools:" of the system prompt
AvailableTools ==
    <<"trim_video", "split_video", "merge_clips", "crop_frame", "resize_video",
      "change_resolution", "adjust_frame_rate", "color_correct", "add_transition",
      "add_overlay", "add_subtitles", "add_captions", "add_soundtrack",
      "adjust_volume", "remove_background_noise", "generate_thumbnail",
      "add_intro", "add_outro", "export_video", "change_format">>

-----------------------------------------------------------------------------
(* Messages (langchain_core.messages) *)

Message(type, id, content, tool_calls, tool_call_id) ==
    [type |-> type, id |-> id, content |-> content,
     tool_calls |-> tool_calls, tool_call_id |-> tool_call_id]

\* HumanMessage(content=...): no id until add_messages gives it one
HumanMessage(content) == Message("human", NoneValue, content, <<>>, NoneValue)

\* The AIMessage the LLM returns, with the provider's id
AIMessage(id, content, tool_calls) == Message("ai", id, content, tool_calls, NoneValue)

\* The ToolMessage ToolNode builds from a tool's return value
ToolMessage(content, tool_call_id) == Message("tool", NoneValue, content, <<>>, tool_call_id)

\* VideoEditingAgent._create_system_message
create_system_message(video_uri) ==
    [type |-> "system", id |-> NoneValue,
     content |-> "CURRENT VIDEO URI: " \o video_uri,
     available_tools |-> AvailableTools,
     tool_calls |-> <<>>, tool_call_id |-> NoneValue]

-----------------------------------------------------------------------------
(* AgentState and its reducers *)

\* The id a message without one is given (uuid4 in add_messages, the provider's
\* id on an LLM response): fresh, drawn from the counter n
FreshId(n) == "m" \o ToString(n)

NoIdCount(msgs) == Cardinality({i \in 1..Len(msgs) : msgs[i].id = NoneValue})

\* add_messages gives every message that has no id a fresh one
AssignIds(msgs, n) ==
    [i \in 1..Len(msgs) |->
        IF msgs[i].id = NoneValue
        THEN [msgs[i] EXCEPT !.id =
                FreshId(n + Cardinality({j \in 1..i : msgs[j].id = NoneValue}) - 1)]
        ELSE msgs[i]]

\* One message merged into a list: it replaces the message with its id, else it is appended
Upsert(left, m) ==
    IF \E i \in 1..Len(left) : left[i].id = m.id
    THEN [i \in 1..Len(left) |-> IF left[i].id = m.id THEN m ELSE left[i]]
    ELSE Append(left, m)

RECURSIVE MergeById(_, _)
MergeById(left, right) ==
    IF right = <<>> THEN left ELSE MergeById(Upsert(left, Head(right)), Tail(right))

\* Mutant: messages without a reducer, each update overwrites the list
add_messages_Overwrite(left, right, n) == AssignIds(right, n)

\* AgentState.messages: Annotated[Sequence[BaseMessage], add_messages]
add_messages(left, right, n) == MergeById(left, AssignIds(right, n))

\* The values of a thread that has no checkpoint yet
EmptyState == [messages |-> <<>>, current_video_uri |-> NoneValue]

\* AgentState: an update is applied key by key, messages through its reducer,
\* current_video_uri (no reducer) by overwriting
ApplyUpdate(values, update, n) ==
    [messages |->
        IF "messages" \in DOMAIN update
        THEN add_messages(values.messages, update.messages, n)
        ELSE values.messages,
     current_video_uri |->
        IF "current_video_uri" \in DOMAIN update
        THEN update.current_video_uri
        ELSE values.current_video_uri]

-----------------------------------------------------------------------------
(* VideoEditingAgent *)

NoAgent == [constructed |-> FALSE]

END == "__end__"

\* Mutant: the tools node leads to END instead of back to the agent
create_graph_NoLoop ==
    [entry_point |-> "agent",
     nodes |-> {"agent", "tools"},
     conditional_edges |-> [continue |-> "tools", end |-> END],
     edges |-> [tools |-> END],
     checkpointer |-> "memory"]

\* VideoEditingAgent._create_graph
create_graph ==
    [entry_point |-> "agent",
     nodes |-> {"agent", "tools"},
     conditional_edges |-> [continue |-> "tools", end |-> END],
     edges |-> [tools |-> "agent"],
     checkpointer |-> "memory"]

\* VideoEditingAgent.__init__: what construction with these arguments under this
\* environment yields: the exception raised ("" for none), the object, os.environ
Construct(env, openai_api_key, langsmith_api_key, langsmith_project) ==
    LET key == Or(openai_api_key, env.OPENAI_API_KEY)
        lkey == Or(langsmith_api_key, env.LANGSMITH_API_KEY)
        lproject == Or(langsmith_project, Or(env.LANGSMITH_PROJECT, "video-editing-agent"))
        tools == register_tools
    IN  IF ~Truthy(key)
        THEN [raised |-> "ValueError", agent |-> NoAgent, environ |-> env]
        ELSE [raised |-> "",
              agent |-> [constructed |-> TRUE,
                         openai_api_key |-> key,
                         langsmith_api_key |-> lkey,
                         langsmith_project |-> lproject,
                         llm |-> [model |-> "gpt-4o", api_key |-> key],
                         memory |-> "MemorySaver",
                         tools |-> tools,
                         llm_with_tools |-> tools,
                         tool_node |-> tools,
                         graph |-> create_graph],
              environ |->
                 IF Truthy(lkey)
                 THEN [env EXCEPT !.LANGCHAIN_TRACING_V2 = "true",
                                  !.LANGCHAIN_ENDPOINT = "https://api.smith.langchain.com",
                                  !.LANGCHAIN_API_KEY = lkey,
                                  !.LANGCHAIN_PROJECT = lproject]
                 ELSE env]

\* Mutant: every call uses the default thread
config_Default(tid) == "default"

\* config = {"configurable": {"thread_id": thread_id}}: the key of the checkpoint
config(tid) == tid

\* graph.get_state(config).values, EmptyState standing for the empty dict
Values(tid) == IF config(tid) \in DOMAIN memory THEN memory[config(tid)] ELSE EmptyState

\* The checkpointer's table with the values of one thread replaced
Checkpoint(tid, values) ==
    [k \in DOMAIN memory \cup {config(tid)} |->
        IF k = config(tid) THEN values ELSE memory[k]]

\* Mutant: the URI is put in the prompt as it is, None or empty included
messages_for_llm_NoDefault(state) ==
    LET kept == SelectSeq(state.messages, LAMBDA msg : msg.type # "system")
    IN  <<create_system_message(state.current_video_uri)>> \o kept

\* VideoEditingAgent._call_agent: messages_for_llm
messages_for_llm(state) ==
    LET current_video_uri == Or(state.current_video_uri, "No video URI provided")
        kept == SelectSeq(state.messages, LAMBDA msg : msg.type # "system")
    IN  <<create_system_message(current_video_uri)>> \o kept

\* Mutant: any AI message continues, with or without tool calls
should_continue_AnyAI(state) ==
    LET messages == state.messages
    IN  IF messages = <<>> THEN "end"
        ELSE IF Last(messages).type = "ai" THEN "continue" ELSE "end"

\* VideoEditingAgent._should_continue
should_continue(state) ==
    LET messages == state.messages
    IN  IF messages = <<>> THEN "end"
        ELSE IF Last(messages).type = "ai" /\ Last(messages).tool_calls # <<>>
             THEN "continue"
             ELSE "end"

\* str(...) of a tool's return value, as ToolNode puts it in the ToolMessage
ToolContent(name, result) ==
    result.message \o " -> " \o
    (IF name = "split_video" THEN result.media[1] \o ", " \o result.media[2]
     ELSE result.media)

\* ToolNode: one ToolMessage per tool call of the last message, in order
tool_node(state) ==
    LET tcs == Last(state.messages).tool_calls
    IN  [i \in 1..Len(tcs) |->
            ToolMessage(ToolContent(tcs[i].name, InvokeTool(tcs[i].name, tcs[i].args)),
                        tcs[i].id)]

\* Mutant: only the newest message is looked at
final_output_LastOnly(final_messages) ==
    IF final_messages # <<>> /\ Last(final_messages).type = "ai"
       /\ Last(final_messages).content # ""
    THEN Last(final_messages).content
    ELSE "No response generated"

\* VideoEditingAgent.process_request: final_output of a completed run
final_output(final_messages) ==
    LET withContent == SelectSeq(Reversed(final_messages),
                                 LAMBDA msg : msg.type = "ai" /\ msg.content # "")
    IN  IF withContent = <<>> THEN "No response generated" ELSE Head(withContent).content

\* One entry of get_conversation_history
HistoryEntry(msg) ==
    IF msg.type = "tool"
    THEN [type |-> "tool", content |-> msg.content,
          tool_call_id |-> msg.tool_call_id, timestamp |-> NoneValue]
    ELSE [type |-> msg.type,
          content |->
            IF msg.type = "ai" /\ msg.tool_calls # <<>>
            THEN msg.content \o " [Called tools: "
                 \o Join([i \in 1..Len(msg.tool_calls) |->
                            (IF i > 1 THEN ", " ELSE "") \o msg.tool_calls[i].name])
                 \o "]"
            ELSE msg.content,
          timestamp |-> NoneValue]

\* VideoEditingAgent.get_conversation_history
get_conversation_history(tid) ==
    IF config(tid) \notin DOMAIN memory THEN <<>>
    ELSE LET messages == Values(tid).messages
             listed == SelectSeq(messages, LAMBDA msg :
                          \/ msg.type = "human"
                          \/ msg.type = "tool"
                          \/ (msg.type = "ai" /\ (msg.content # "" \/ msg.tool_calls # <<>>)))
         IN  [i \in 1..Len(listed) |-> HistoryEntry(listed[i])]

-----------------------------------------------------------------------------
(* Inputs *)

ThreadIds == {"default", "example_1"}

UserInputs == {"Trim this video from 10 seconds to 30 seconds"}

DemoVideoUri == "s3://demo-bucket/input/video.mp4"

VideoUris == {NoneValue, DemoVideoUri}

\* Arguments of a tool call
ToolArgs(uri, output_format, output_s3_uri) ==
    [uri |-> uri, output_format |-> output_format, output_s3_uri |-> output_s3_uri]

\* What the LLM may answer: a content and a list of tool calls (name, args).
\* A tool-calling answer has no content, a final answer may have none either.
DemoToolCalls ==
    <<[name |-> "trim_video", args |-> ToolArgs(DemoVideoUri, "", <<>>)],
      [name |-> "change_format", args |-> ToolArgs(DemoVideoUri, "mov", <<>>)]>>

LLMResponses ==
    {[content |-> "", tool_calls |-> DemoToolCalls],
     [content |-> "", tool_calls |-> <<>>],
     [content |-> "Done", tool_calls |-> <<>>]}

\* The tool calls of a response, with the ids the provider gives them
WithCallIds(tcs, id) ==
    [i \in 1..Len(tcs) |->
        [name |-> tcs[i].name, args |-> tcs[i].args,
         id |-> "call_" \o id \o "_" \o ToString(i)]]

NoRequest == [user_input |-> "", video_uri |-> NoneValue, thread_id |-> ""]

NoOp == [op |-> "", thread_id |-> "", ok |-> FALSE]

NoCall == [name |-> "", args |-> ToolArgs("", "", <<>>)]

-----------------------------------------------------------------------------
(* process_request: graph.invoke, one action per super-step *)

\* process_request up to the point where graph.invoke has checkpointed the input
ProcessRequest(user_input, video_uri, tid) ==
    /\ agent.constructed
    /\ pc = "idle"
    /\ Len(calls) < MaxRequests
    /\ LET initial_state == [messages |-> <<HumanMessage(user_input)>>,
                             current_video_uri |-> video_uri]
       IN  /\ memory' = Checkpoint(tid, ApplyUpdate(Values(tid), initial_state, uuid))
           /\ uuid' = uuid + NoIdCount(initial_state.messages)
    /\ req' = [user_input |-> user_input, video_uri |-> video_uri, thread_id |-> tid]
    /\ pc' = agent.graph.entry_point
    /\ step' = 0
    /\ trace' = <<>>
    /\ produced' = <<>>
    /\ error' = ""
    /\ lastOp' = NoOp
    /\ UNCHANGED <<llm_input, calls>>

\* Mutant: the agent node also writes the path of a tool's output as the current URI
call_agent_WritesUri(response) ==
    [messages |-> <<response>>,
     current_video_uri |-> "s3://mock-bucket/output/trimmed_video.mp4"]

\* What _call_agent returns for the LLM's response
call_agent(response) == [messages |-> <<response>>]

\* The agent node: _call_agent, then the conditional edge _should_continue
CallAgent ==
    /\ pc = "agent"
    /\ step < RecursionLimit
    /\ LET state == Values(req.thread_id)
       IN  /\ llm_input' = messages_for_llm(state)
           /\ \/ \* self.llm_with_tools.invoke raises: the exception is re-raised
                 /\ pc' = "failed"
                 /\ error' = "LLM error"
                 /\ UNCHANGED <<memory, uuid, step, trace, produced>>
              \/ \E r \in LLMResponses :
                   LET id == FreshId(uuid)
                       response == AIMessage(id, r.content, WithCallIds(r.tool_calls, id))
                       update == call_agent(response)
                       after == ApplyUpdate(state, update, uuid + 1)
                   IN  /\ memory' = Checkpoint(req.thread_id, after)
                       /\ uuid' = uuid + 1
                       /\ step' = step + 1
                       /\ trace' = Append(trace, "agent")
                       /\ produced' = produced \o update.messages
                       /\ pc' = agent.graph.conditional_edges[should_continue(after)]
                       /\ error' = ""
    /\ UNCHANGED <<req, calls, lastOp>>

\* The tools node: ToolNode, then the edge tools -> agent
CallTools ==
    /\ pc = "tools"
    /\ step < RecursionLimit
    /\ LET state == Values(req.thread_id)
           update == [messages |-> tool_node(state)]
       IN  /\ memory' = Checkpoint(req.thread_id, ApplyUpdate(state, update, uuid))
           /\ uuid' = uuid + NoIdCount(update.messages)
           /\ produced' = produced \o AssignIds(update.messages, uuid)
    /\ step' = step + 1
    /\ trace' = Append(trace, "tools")
    /\ pc' = agent.graph.edges["tools"]
    /\ UNCHANGED <<req, llm_input, calls, error, lastOp>>

\* Mutant: the framework sets no limit on the super-steps of a run
OutOfSteps_Never ==
    /\ FALSE
    /\ UNCHANGED vars

\* The framework aborts a run that still has a node to execute after
\* RecursionLimit super-steps
OutOfSteps ==
    /\ pc \in agent.graph.nodes
    /\ step >= RecursionLimit
    /\ pc' = "failed"
    /\ error' = "GraphRecursionError"
    /\ UNCHANGED <<memory, req, step, uuid, llm_input, trace, produced, calls, lastOp>>

\* process_request: the dict returned when graph.invoke returned final_state
success_result(final_state) ==
    [final_output |-> final_output(final_state.messages),
     messages |-> final_state.messages,
     current_video_uri |-> final_state.current_video_uri,
     success |-> TRUE]

\* Mutant: the error dict carries the checkpointed messages and the bare exception text
failure_result_Leaky(video_uri, e) ==
    [final_output |-> e,
     messages |-> Values(req.thread_id).messages,
     current_video_uri |-> video_uri,
     success |-> FALSE]

\* process_request: the dict returned when graph.invoke raised e (except Exception)
failure_result(video_uri, e) ==
    [final_output |-> "Error processing request: " \o e,
     messages |-> <<>>,
     current_video_uri |-> video_uri,
     success |-> FALSE]

\* process_request from the return of graph.invoke (or its exception) to its own return
ProcessReturn ==
    /\ pc \in {END, "failed"}
    /\ LET final_state == Values(req.thread_id)
           result ==
             IF pc = END
             THEN success_result(final_state)
             ELSE failure_result(req.video_uri, error)
       IN  calls' = Append(calls, [req |-> req, result |-> result, error |-> error,
                                   trace |-> trace, produced |-> produced])
    /\ pc' = "idle"
    /\ UNCHANGED <<memory, req, step, uuid, llm_input, trace, produced, error, lastOp>>

\* A call of get_conversation_history: it reads the checkpoint and changes nothing
GetConversationHistory(tid) ==
    /\ agent.constructed
    /\ pc = "idle"
    /\ Len(get_conversation_history(tid)) <= Len(Values(tid).messages)
    /\ UNCHANGED runVars

\* VideoEditingAgent.clear_history: graph.update_state(config, {"messages": []},
\* as_node="__start__") applies the update through the reducers of AgentState
ClearHistory(tid) ==
    /\ agent.constructed
    /\ pc = "idle"
    /\ \/ /\ memory' = Checkpoint(tid, ApplyUpdate(Values(tid), [messages |-> <<>>], uuid))
          /\ lastOp' = [op |-> "clear_history", thread_id |-> tid,
                        ok |-> TRUE]
       \/ \* update_state raises: the exception is caught and False returned
          /\ memory' = memory
          /\ lastOp' = [op |-> "clear_history", thread_id |-> tid,
                        ok |-> FALSE]
    /\ UNCHANGED <<pc, req, step, uuid, llm_input, trace, produced, calls, error>>

\* The super-steps and the return of a running process_request
RunStep == CallAgent \/ CallTools \/ OutOfSteps \/ ProcessReturn

-----------------------------------------------------------------------------
(* The agent's public interface, called on an agent constructed with a key *)

TestKey == "test-key-12345"

NoEnviron ==
    [OPENAI_API_KEY |-> NoneValue, LANGSMITH_API_KEY |-> NoneValue,
     LANGSMITH_PROJECT |-> NoneValue, LANGCHAIN_TRACING_V2 |-> NoneValue,
     LANGCHAIN_ENDPOINT |-> NoneValue, LANGCHAIN_API_KEY |-> NoneValue,
     LANGCHAIN_PROJECT |-> NoneValue]

InitRun ==
    /\ memory = <<>>
    /\ pc = "idle"
    /\ req = NoRequest
    /\ step = 0
    /\ uuid = 1
    /\ llm_input = <<>>
    /\ trace = <<>>
    /\ produced = <<>>
    /\ calls = <<>>
    /\ error = ""
    /\ lastOp = NoOp

InitMainVars ==
    /\ thread_id = "main_session"
    /\ main_pc = "loop"
    /\ processed = {}
    /\ cleared = FALSE

NoResult == [message |-> NoneValue, media |-> NoneValue]

InitTools ==
    /\ toolCall = NoCall
    /\ toolResult = NoResult
    /\ otherCall = NoCall
    /\ otherResult = NoResult

\* create_video_editing_agent(api_key), as tests/test_agent.py calls it
InitAgent ==
    LET made == Construct(NoEnviron, TestKey, NoneValue, "video-editing-agent")
    IN  /\ environ = made.environ
        /\ agent = made.agent
        /\ ctor = [openai_api_key |-> TestKey, langsmith_api_key |-> NoneValue,
                   langsmith_project |-> "video-editing-agent",
                   env |-> NoEnviron, raised |-> made.raised, called |-> TRUE]

Init == InitAgent /\ InitRun /\ InitMainVars /\ InitTools

Next ==
    \/ /\ \E user_input \in UserInputs, video_uri \in VideoUris, tid \in ThreadIds :
            ProcessRequest(user_input, video_uri, tid)
       /\ UNCHANGED <<agentVars, mainVars, toolVars>>
    \/ /\ RunStep
       /\ UNCHANGED <<agentVars, mainVars, toolVars>>
    \/ /\ \E tid \in ThreadIds : GetConversationHistory(tid)
       /\ UNCHANGED <<agentVars, mainVars, toolVars>>
    \/ /\ \E tid \in ThreadIds : ClearHistory(tid)
       /\ UNCHANGED <<agentVars, mainVars, toolVars>>

Spec == Init /\ [][Next]_vars

\* graph.invoke is a synchronous call: a run that has a step to take takes it
Run == RunStep /\ UNCHANGED <<agentVars, mainVars, toolVars>>

NextLive ==
    \/ /\ \E user_input \in UserInputs, video_uri \in VideoUris :
            ProcessRequest(user_input, video_uri, "default")
       /\ UNCHANGED <<agentVars, mainVars, toolVars>>
    \/ Run

SpecLive == Init /\ [][NextLive]_vars /\ WF_vars(Run)

-----------------------------------------------------------------------------
(* One conversation, as in examples/langsmith_example.py: requests on one thread
   with the video URI absent, empty, or one of two videos *)

IntroVideoUri == "s3://demo-bucket/input/intro_video.mp4"

UriInputs == {NoneValue, "", DemoVideoUri, IntroVideoUri}

NextUri ==
    \/ /\ \E user_input \in UserInputs, video_uri \in UriInputs :
            ProcessRequest(user_input, video_uri, "example_1")
       /\ UNCHANGED <<agentVars, mainVars, toolVars>>
    \/ /\ RunStep
       /\ UNCHANGED <<agentVars, mainVars, toolVars>>

SpecUri == Init /\ [][NextUri]_vars

-----------------------------------------------------------------------------
(* Construction: VideoEditingAgent(...) under any environment *)

EnvKey == "sk-env-key"

Environs ==
    {[NoEnviron EXCEPT !.OPENAI_API_KEY = k, !.LANGSMITH_API_KEY = lk,
                       !.LANGSMITH_PROJECT = lp] :
        k \in {NoneValue, "", EnvKey},
        lk \in {NoneValue, "ls-env-key"},
        lp \in {NoneValue, "env-project"}}

NoCtor ==
    [openai_api_key |-> NoneValue, langsmith_api_key |-> NoneValue,
     langsmith_project |-> NoneValue, env |-> NoEnviron, raised |-> "",
     called |-> FALSE]

\* create_video_editing_agent(openai_api_key, langsmith_api_key, langsmith_project)
CreateAgent(openai_api_key, langsmith_api_key, langsmith_project) ==
    LET made == Construct(environ, openai_api_key, langsmith_api_key, langsmith_project)
    IN  /\ environ' = made.environ
        /\ agent' = made.agent
        /\ ctor' = [openai_api_key |-> openai_api_key,
                    langsmith_api_key |-> langsmith_api_key,
                    langsmith_project |-> langsmith_project,
                    env |-> environ, raised |-> made.raised, called |-> TRUE]

InitCtor ==
    /\ environ \in Environs
    /\ agent = NoAgent
    /\ ctor = [NoCtor EXCEPT !.env = environ]
    /\ InitRun /\ InitMainVars /\ InitTools

NextCtor ==
    /\ \E k \in {NoneValue, "", TestKey}, lk \in {NoneValue, "ls-key"},
          lp \in {"video-editing-agent", ""} :
          CreateAgent(k, lk, lp)
    /\ UNCHANGED <<runVars, mainVars, toolVars>>

SpecCtor == InitCtor /\ [][NextCtor]_vars

-----------------------------------------------------------------------------
(* src/main.py: the interactive loop of main(), one action per command *)

\* 'quit' or 'exit'
MainQuit ==
    /\ main_pc' = "quit"
    /\ UNCHANGED <<thread_id, processed, cleared, runVars>>

\* An empty line, or 'help': nothing but output
MainHelp == UNCHANGED <<mainVars, runVars>>

\* 'history': print_history(agent, thread_id)
MainHistory ==
    /\ GetConversationHistory(thread_id)
    /\ UNCHANGED mainVars

\* The thread id 'clear' switches to
NewThreadId(tid) == "session_" \o ToString(Len(tid))

\* 'clear'
MainClear ==
    /\ thread_id' = NewThreadId(thread_id)
    /\ cleared' = TRUE
    /\ UNCHANGED <<main_pc, processed, runVars>>

\* Any other line is a request; an empty answer to the URI prompt means the demo video
MainRequest(user_input, uri_line) ==
    LET video_uri == IF uri_line = "" THEN DemoVideoUri ELSE uri_line
    IN  /\ ProcessRequest(user_input, video_uri, thread_id)
        /\ processed' = processed \cup {thread_id}
        /\ cleared' = FALSE
        /\ UNCHANGED <<thread_id, main_pc>>

\* The loop reads a command only when no request is being processed
MainCommand ==
    /\ main_pc = "loop"
    /\ pc = "idle"
    /\ \/ MainQuit
       \/ MainHelp
       \/ MainHistory
       \/ MainClear
       \/ \E user_input \in UserInputs, uri_line \in {"", "s3://my-bucket/clip.mp4"} :
            MainRequest(user_input, uri_line)

InitMain == InitAgent /\ InitRun /\ InitMainVars /\ InitTools

NextMain ==
    \/ /\ MainCommand
       /\ UNCHANGED <<agentVars, toolVars>>
    \/ /\ RunStep
       /\ UNCHANGED <<agentVars, mainVars, toolVars>>

SpecMain == InitMain /\ [][NextMain]_vars

-----------------------------------------------------------------------------
(* src/src/tools/tools.py: every tool function called twice *)

ToolArgsSet ==
    {ToolArgs(uri, output_format, output_s3_uri) :
        uri \in {DemoVideoUri, "s3://demo-bucket/input/intro_video.mp4"},
        output_format \in {"mp4", "mov"},
        output_s3_uri \in {<<"s", "3", ":", "/", "/", "o">>,
                           <<"s", "3", ":", "/", "/", "o", "/">>,
                           <<"s", "3", ":", "/", "/", "o", "/", "/">>}}

InitToolCalls ==
    /\ \E name \in SeqToSet(register_tools), a \in ToolArgsSet, b \in ToolArgsSet :
          /\ toolCall = [name |-> name, args |-> a]
          /\ otherCall = [name |-> name, args |-> b]
    /\ toolResult = NoResult
    /\ otherResult = NoResult
    /\ InitAgent /\ InitRun /\ InitMainVars

\* Both calls are made
CallTool ==
    /\ toolResult = NoResult
    /\ toolResult' = InvokeTool(toolCall.name, toolCall.args)
    /\ otherResult' = InvokeTool(otherCall.name, otherCall.args)
    /\ UNCHANGED <<toolCall, otherCall, agentVars, runVars, mainVars>>

NextTools == CallTool

SpecTools == InitToolCalls /\ [][NextTools]_vars

-----------------------------------------------------------------------------
(* Properties *)

\* The messages checkpointed for the thread of the running (or last) request
RunMessages == Values(req.thread_id).messages

HasToolCalls(msgs) ==
    msgs # <<>> /\ Last(msgs).type = "ai" /\ Last(msgs).tool_calls # <<>>

\* Message lists the routing function is also tried on, besides those a run reaches
ProbeMessages ==
    LET h == [HumanMessage("hi") EXCEPT !.id = "p1"]
        a == AIMessage("p2", "Done", <<>>)
        e == AIMessage("p2", "", <<>>)
        c == AIMessage("p2", "", WithCallIds(DemoToolCalls, "p2"))
        t == [ToolMessage("out", "call_p2_1") EXCEPT !.id = "p3"]
        y == [HumanMessage("system text") EXCEPT !.type = "system", !.id = "p0"]
    IN  {<<>>, <<h>>, <<h, a>>, <<h, e>>, <<h, c>>, <<h, c, t>>, <<y>>, <<c, h>>, <<a, c>>}

\* The node the conditional edge leads to from a state with these messages
RouteOf(msgs) ==
    agent.graph.conditional_edges[
        should_continue([messages |-> msgs, current_video_uri |-> NoneValue])]

\* C1: after every agent step the graph goes to the tools node if and only if the
\* last message of the state is an AI message with a non-empty list of tool calls,
\* and ends the run in every other case (no message, a last message that is not an
\* AI message, an AI message without tool calls).
C1_Routing ==
    /\ [](\A msgs \in ProbeMessages :
            /\ RouteOf(msgs) \in {"tools", END}
            /\ RouteOf(msgs) = "tools" <=> HasToolCalls(msgs))
    /\ [][(pc = "agent" /\ trace' = Append(trace, "agent")) =>
            /\ pc' \in {"tools", END}
            /\ pc' = "tools" <=> HasToolCalls(RunMessages')]_vars

C1_Witness == pc = "tools" /\ trace # <<>> /\ Last(trace) = "agent" /\ HasToolCalls(RunMessages)

\* The nodes of a run alternate: agent first, every tools step between two agent steps
Alternates(tr) ==
    /\ tr # <<>> => tr[1] = "agent"
    /\ \A i \in 1..Len(tr) :
          tr[i] = "tools" =>
            /\ i > 1
            /\ tr[i - 1] = "agent"
            /\ i < Len(tr) => tr[i + 1] = "agent"

\* C2: every graph run is a reason-then-act loop: it starts at the agent node, every
\* tools step comes directly after an agent step that produced tool calls and hands
\* over to the agent node, and the run reaches END only directly after an agent step.
C2_ReasonThenAct ==
    /\ [](/\ Alternates(trace)
          /\ \A i \in 1..Len(calls) : Alternates(calls[i].trace)
          /\ pc = "tools" => trace # <<>> /\ Last(trace) = "agent" /\ HasToolCalls(RunMessages)
          /\ pc = END => trace # <<>> /\ Last(trace) = "agent")
    /\ [][/\ (pc = "idle" /\ pc' # "idle") => (pc' = "agent" /\ trace' = <<>>)
          /\ trace' = Append(trace, "tools") => (pc = "tools" /\ pc' = "agent")
          /\ trace' = Append(trace, "agent") => pc = "agent"]_vars

C2_Witness ==
    pc = END /\ Len(trace) >= 3 /\ trace[1] = "agent" /\ trace[2] = "tools" /\ trace[3] = "agent"

\* The thread a step acts on: the thread of the request it belongs to, or the
\* thread of the clear_history call it is
ActingThread(p, p2, r2, o2) == IF p # "idle" \/ p2 # "idle" THEN r2.thread_id ELSE o2.thread_id

\* C3: no process_request or clear_history call on a thread A changes what
\* get_conversation_history(B) returns for another thread B.
C3_ThreadScoped ==
    [][\A B \in ThreadIds :
          B # ActingThread(pc, pc', req', lastOp') =>
            /\ get_conversation_history(B)' = get_conversation_history(B)
            /\ Values(B)' = Values(B)]_vars

C3_Witness ==
    /\ Len(calls) = 2
    /\ calls[1].req.thread_id # calls[2].req.thread_id
    /\ calls[1].result.success /\ calls[2].result.success
    /\ get_conversation_history(calls[1].req.thread_id) # <<>>
    /\ lastOp.op = "clear_history" /\ lastOp.ok

\* C4: of two consecutive successful process_request calls on one thread, the second
\* returns the messages the first returned, in order, then its own human message,
\* then the messages produced while serving it.
C4_HistoryPersists ==
    \A i \in 1..(Len(calls) - 1) :
        LET first == calls[i]
            second == calls[i + 1]
            n == Len(first.result.messages)
        IN  (/\ first.result.success
             /\ second.result.success
             /\ first.req.thread_id = second.req.thread_id) =>
                /\ Len(second.result.messages) = n + 1 + Len(second.produced)
                /\ SubSeq(second.result.messages, 1, n) = first.result.messages
                /\ second.result.messages[n + 1].type = "human"
                /\ second.result.messages[n + 1].content = second.req.user_input
                /\ SubSeq(second.result.messages, n + 2, Len(second.result.messages))
                     = second.produced

C4_Witness ==
    /\ Len(calls) = 2
    /\ calls[1].result.success /\ calls[2].result.success
    /\ calls[1].req.thread_id = calls[2].req.thread_id
    /\ Len(calls[1].produced) >= 4
    /\ Len(calls[2].produced) >= 4

\* C5: whenever clear_history(thread_id) returns True, get_conversation_history of
\* that thread, called next, returns an empty list.
C5_ClearEmpties ==
    (lastOp.op = "clear_history" /\ lastOp.ok) =>
        get_conversation_history(lastOp.thread_id) = <<>>

\* C6: in the interactive loop, after any number of 'clear' commands the thread id
\* of the next request is one on which the session has processed no request, and
\* holds none of the earlier messages.
C6_ClearIsFresh ==
    (main_pc = "loop" /\ cleared) =>
        /\ thread_id \notin processed
        /\ Values(thread_id).messages = <<>>

Called == toolResult.message # NoneValue

\* C7 as stated: every tool returns the same dict for all argument values.
C7_AllFixed == Called => toolResult = otherResult

\* C7, amended: every tool returns a fixed 'message'; every tool but export_video and
\* change_format returns a fixed 'media'; the media of change_format depends on
\* output_format alone, that of export_video on output_s3_uri and output_format
\* alone (and not on trailing slashes of output_s3_uri).
C7_FixedButExport ==
    Called =>
        /\ toolResult.message = otherResult.message
        /\ toolCall.name \notin {"export_video", "change_format"} =>
              toolResult.media = otherResult.media
        /\ (/\ toolCall.name = "change_format"
            /\ toolCall.args.output_format = otherCall.args.output_format) =>
              toolResult.media = otherResult.media
        /\ (/\ toolCall.name = "export_video"
            /\ toolCall.args.output_format = otherCall.args.output_format
            /\ rstrip(toolCall.args.output_s3_uri, "/")
                 = rstrip(otherCall.args.output_s3_uri, "/")) =>
              toolResult.media = otherResult.media

C7_Witness ==
    /\ Called
    /\ toolCall.name = "trim_video"
    /\ toolCall.args.uri # otherCall.args.uri
    /\ toolCall.args.output_format # otherCall.args.output_format
    /\ toolCall.args.output_s3_uri # otherCall.args.output_s3_uri

\* C8: the agent constructed with an API key holds exactly the twenty expected tools,
\* none missing, none extra, none twice, and no later operation changes them.
C8_TwentyTools ==
    /\ [](agent.constructed =>
            /\ Len(agent.tools) = Len(expected_tools)
            /\ SeqToSet(agent.tools) = SeqToSet(expected_tools)
            /\ Cardinality(SeqToSet(expected_tools)) = Len(expected_tools)
            /\ NoDuplicates(agent.tools))
    /\ [][agent.constructed => agent' = agent]_vars

C8_Witness ==
    /\ agent.constructed
    /\ Len(agent.tools) = Cardinality(SeqToSet(expected_tools))
    /\ Len(calls) = MaxRequests
    /\ lastOp.op = "clear_history" /\ lastOp.ok

\* C9: the tool names listed under 'Available tools' in the system message of every
\* LLM call are the names of the tools bound to the LLM and run by the tools node.
C9_PromptListsTools ==
    /\ agent.constructed =>
          /\ SeqToSet(AvailableTools) = SeqToSet(agent.llm_with_tools)
          /\ SeqToSet(AvailableTools) = SeqToSet(agent.tool_node)
    /\ llm_input # <<>> =>
          /\ llm_input[1].type = "system"
          /\ SeqToSet(llm_input[1].available_tools) = SeqToSet(agent.llm_with_tools)
          /\ SeqToSet(llm_input[1].available_tools) = SeqToSet(agent.tool_node)

C9_Witness == llm_input # <<>> /\ llm_input[1].type = "system" /\ pc = "tools"

\* No key: no argument (None or empty) and no environment variable (unset or empty)
NoKeyGiven == ~Truthy(ctor.openai_api_key) /\ ~Truthy(ctor.env.OPENAI_API_KEY)

\* C10: construction raises ValueError, with nothing created, exactly when no key
\* argument is given and OPENAI_API_KEY is unset or empty; with any non-empty key it
\* yields an agent with an LLM, memory, tools and a compiled graph.
C10_KeyRequired ==
    ctor.called =>
        /\ ctor.raised = "ValueError" <=> NoKeyGiven
        /\ ctor.raised \in {"", "ValueError"}
        /\ ctor.raised = "ValueError" => (agent = NoAgent /\ environ = ctor.env)
        /\ ~NoKeyGiven =>
              /\ agent.constructed
              /\ Truthy(agent.openai_api_key)
              /\ agent.openai_api_key \in {ctor.openai_api_key, ctor.env.OPENAI_API_KEY}
              /\ agent.llm.api_key = agent.openai_api_key
              /\ agent.memory = "MemorySaver"
              /\ Len(agent.tools) = Len(register_tools)
              /\ agent.graph.checkpointer = "memory"
              /\ agent.graph.entry_point = "agent"

C10_Witness ==
    /\ ctor.called
    /\ ctor.raised = "ValueError"
    /\ ctor.openai_api_key = ""
    /\ ctor.env.OPENAI_API_KEY = ""

\* C11: process_request never lets an exception of the graph run out: a run that
\* raised (the LLM call, a step of the framework) returns success = False, no
\* messages, 'Error processing request: ' followed by the exception text and the
\* video_uri argument; a run that completed returns success = True.
C11_ErrorsAreReturned ==
    /\ [](/\ \A i \in 1..Len(calls) :
               LET c == calls[i]
               IN  /\ c.result.success <=> c.error = ""
                   /\ ~c.result.success =>
                        /\ c.error \in {"LLM error", "GraphRecursionError"}
                        /\ c.result.messages = <<>>
                        /\ c.result.final_output = "Error processing request: " \o c.error
                        /\ c.result.current_video_uri = c.req.video_uri
          /\ pc = "failed" => (error # "" /\ ENABLED ProcessReturn)
          /\ pc = END => error = "")
    /\ [][/\ (pc = "failed" /\ pc' = "idle") =>
               (Len(calls') = Len(calls) + 1 /\ ~Last(calls').result.success)
          /\ (pc = END /\ pc' = "idle") =>
               (Len(calls') = Len(calls) + 1 /\ Last(calls').result.success)
          /\ pc' = "failed" => pc \in {"agent", "tools", "failed"}]_vars

C11_Witness ==
    /\ Len(calls) = 2
    /\ calls[1].error = "LLM error" /\ ~calls[1].result.success
    /\ calls[2].error = "GraphRecursionError" /\ ~calls[2].result.success
    /\ calls[2].req.thread_id = calls[1].req.thread_id
    /\ calls[2].req.video_uri # NoneValue
    /\ Values(calls[2].req.thread_id).messages # <<>>

\* A run is under way or has just ended, and has called the LLM
LLMCalled == pc # "idle" /\ (trace # <<>> \/ error = "LLM error")

\* The step is a call of the LLM by the agent node (answered or raising)
IsLLMCall(p, p2, t, t2, e2) ==
    p = "agent" /\ (t2 = Append(t, "agent") \/ (p2 = "failed" /\ e2 = "LLM error"))

\* The current_video_uri checkpointed for the thread of the running request
RunUri == Values(req.thread_id).current_video_uri

\* C12: neither node writes current_video_uri: within a process_request called with
\* a video_uri that is not None the state every LLM call is made from holds that
\* URI (not the one an earlier request stored, not a tool's output path), the
\* prompt is built from it, and the returned current_video_uri is the argument,
\* on success and on failure.
C12_UriIsTheArgument ==
    /\ [](/\ (pc # "idle" /\ req.video_uri # NoneValue) =>
               Values(req.thread_id).current_video_uri = req.video_uri
          /\ (LLMCalled /\ req.video_uri # NoneValue) =>
               llm_input[1].content =
                  "CURRENT VIDEO URI: " \o
                  (IF req.video_uri = "" THEN "No video URI provided" ELSE req.video_uri)
          /\ \A i \in 1..Len(calls) :
               calls[i].req.video_uri # NoneValue =>
                  calls[i].result.current_video_uri = calls[i].req.video_uri)
    /\ [][(pc = "agent" \/ pc = "tools") => RunUri' = RunUri]_vars

C12_Witness ==
    /\ Len(calls) = 1
    /\ calls[1].result.success
    /\ calls[1].req.video_uri = DemoVideoUri
    /\ req.video_uri = IntroVideoUri
    /\ pc = END
    /\ trace = <<"agent", "tools", "agent">>
    /\ llm_input[1].content = "CURRENT VIDEO URI: " \o IntroVideoUri

SystemCount(msgs) == Cardinality({i \in 1..Len(msgs) : msgs[i].type = "system"})

\* The prompt line a state's current_video_uri gives
UriLine(uri) ==
    "CURRENT VIDEO URI: " \o
    (IF uri = NoneValue \/ uri = "" THEN "No video URI provided" ELSE uri)

\* C13: every LLM call gets exactly one system message, first, built from the
\* state's current_video_uri ('No video URI provided' when it is None or empty),
\* then all non-system messages of the state in their order; system messages of
\* the state are dropped; the agent step appends only the LLM's response, so no
\* system message is ever checkpointed.
C13_OneSystemMessage ==
    /\ [](/\ \A t \in DOMAIN memory : SystemCount(memory[t].messages) = 0
          /\ \A msgs \in ProbeMessages, uri \in UriInputs :
               LET out == messages_for_llm([messages |-> msgs, current_video_uri |-> uri])
               IN  /\ out[1].type = "system"
                   /\ out[1].content = UriLine(uri)
                   /\ SystemCount(out) = 1
                   /\ Len(out) = 1 + Len(msgs) - SystemCount(msgs)
                   /\ SystemCount(msgs) = 0 => Tail(out) = msgs)
    /\ [][IsLLMCall(pc, pc', trace, trace', error') =>
            LET st == Values(req.thread_id)
            IN  /\ Len(llm_input') = 1 + Len(st.messages)
                /\ llm_input'[1].type = "system"
                /\ llm_input'[1].content = UriLine(st.current_video_uri)
                /\ \A i \in 1..Len(st.messages) : llm_input'[i + 1] = st.messages[i]
                /\ pc' # "failed" =>
                     /\ Len(RunMessages') = Len(st.messages) + 1
                     /\ SubSeq(RunMessages', 1, Len(st.messages)) = st.messages
                     /\ Last(RunMessages').type = "ai"]_vars

C13_Witness ==
    /\ Len(calls) = 1
    /\ calls[1].result.success
    /\ pc = "tools"
    /\ req.video_uri = ""
    /\ Len(llm_input) >= 4
    /\ llm_input[1].content = "CURRENT VIDEO URI: No video URI provided"

\* The positions of the AI messages with non-empty content
AIWithContent(msgs) == {i \in 1..Len(msgs) : msgs[i].type = "ai" /\ msgs[i].content # ""}

\* out is what the claim says of the message list msgs
IsFinalOutput(msgs, out) ==
    LET at == AIWithContent(msgs)
    IN  /\ at # {} => out = msgs[CHOOSE i \in at : \A j \in at : j <= i].content
        /\ out = "No response generated" <=> at = {}

\* Message lists of up to two messages with differing contents
OutputProbes ==
    LET pool == {[HumanMessage("hi") EXCEPT !.id = "p1"],
                 AIMessage("p2", "Done", <<>>),
                 AIMessage("p3", "Trimmed the video", <<>>),
                 AIMessage("p4", "", <<>>),
                 AIMessage("p5", "Trimming", WithCallIds(DemoToolCalls, "p5")),
                 [ToolMessage("out", "call_p5_1") EXCEPT !.id = "p6"]}
    IN  UNION {[1..n -> pool] : n \in 0..2}

\* C14: a successful process_request returns as final_output the content of the
\* newest AI message with non-empty content among the messages it returns, and
\* 'No response generated' exactly when there is no such message; the same holds
\* of the scan on any message list.
C14_FinalOutput ==
    /\ \A i \in 1..Len(calls) :
          calls[i].result.success =>
            IsFinalOutput(calls[i].result.messages, calls[i].result.final_output)
    /\ \A msgs \in OutputProbes : IsFinalOutput(msgs, final_output(msgs))

\* The second request on a thread ended with an empty answer after a tool call,
\* and the answer returned is the one given to the first request
C14_Witness ==
    /\ Len(calls) = 2
    /\ calls[1].result.success /\ calls[2].result.success
    /\ calls[1].req.thread_id = calls[2].req.thread_id
    /\ calls[2].trace = <<"agent", "tools", "agent">>
    /\ Last(calls[2].result.messages).content = ""
    /\ \A k \in 1..Len(calls[2].produced) : calls[2].produced[k].type = "ai" =>
                                              calls[2].produced[k].content = ""
    /\ calls[2].result.final_output = "Done"

\* The number of tools steps of a call
ToolSteps(c) == Cardinality({k \in 1..Len(c.trace) : c.trace[k] = "tools"})

\* The positions of the call's AI responses that carried tool calls, and of those
\* that carried none
ToolRequests(c) ==
    {k \in 1..Len(c.produced) : c.produced[k].type = "ai" /\ c.produced[k].tool_calls # <<>>}

PlainAnswers(c) ==
    {k \in 1..Len(c.produced) : c.produced[k].type = "ai" /\ c.produced[k].tool_calls = <<>>}

\* C15: every process_request returns. A run in which the LLM answered without
\* tool calls ends there with success = True, after as many tools steps as AI
\* responses with tool calls, its last message an AI message without tool calls;
\* a run in which every response of the LLM carried tool calls stops at the
\* step limit and returns success = False.
C15_RunsReturn ==
    /\ (pc # "idle") ~> (pc = "idle")
    /\ [][(pc # "idle" /\ pc' = "idle") =>
            (Len(calls') = Len(calls) + 1 /\ Last(calls').req = req)]_vars
    /\ [](\A i \in 1..Len(calls) :
            LET c == calls[i]
                final == c.result.messages
            IN  /\ Len(c.trace) <= RecursionLimit
                /\ PlainAnswers(c) # {} =>
                     /\ c.result.success
                     /\ PlainAnswers(c) = {Len(c.produced)}
                /\ c.result.success =>
                     /\ PlainAnswers(c) # {}
                     /\ ToolSteps(c) = Cardinality(ToolRequests(c))
                     /\ Last(final).type = "ai" /\ Last(final).tool_calls = <<>>
                     /\ Last(final) = Last(c.produced)
                /\ (PlainAnswers(c) = {} /\ c.error # "LLM error") =>
                     /\ ~c.result.success
                     /\ c.error = "GraphRecursionError"
                     /\ ToolRequests(c) # {}
                     /\ Len(c.trace) = RecursionLimit)

\* One request was answered after a tools step, and one in which the LLM asked
\* for tools every time was stopped
C15_Witness ==
    /\ pc = "idle" /\ Len(calls) = 2
    /\ calls[1].result.success /\ ToolSteps(calls[1]) = 1
    /\ Cardinality(ToolRequests(calls[1])) = 1
    /\ ~calls[2].result.success /\ calls[2].error = "GraphRecursionError"
    /\ PlainAnswers(calls[2]) = {} /\ Cardinality(ToolRequests(calls[2])) >= 2

====
